---- MODULE Spec2Model ----
(***************************************************************************)
(* The auto-illustration extension: the per-message pipeline               *)
(* (onMessageReceived), the renderer/annotation store (ui.js), the restore *)
(* pass (restoreAllImages), the two-source merge (searchBoth) and the      *)
(* selector (selectBestImage).                                             *)
(***************************************************************************)
EXTENDS Integers, Sequences, FiniteSets, TLC

VARIABLES settings, chat, dom, run, restore, both, sel, agg, srch

vars == <<settings, chat, dom, run, restore, both, sel, agg, srch>>

----------------------------------------------------------------------------
(* Bounds of the model *)

\* messages of the transcript: ids 0 .. NumMsgs-1
NumMsgs == 2
\* MESSAGE_RECEIVED dispatches (pipeline runs) in one behaviour
MaxRuns == 2
\* CHAT_CHANGED dispatches (restore passes) in one behaviour
MaxRestores == 1
\* longest query list a completion reply carries
MaxQueriesReturned == 1
\* longest candidate list one source strategy returns for one query
MaxResults == 1
\* longest result list of one side of searchBoth
MaxSide == 3
\* largest candidate pool handed to selectBestImage on its own
MaxPool == 9
\* largest index a model verdict names
MaxVerdict == 9
\* longest query list handed to the query loop on its own
MaxAggQueries == 2

(* Program constants *)

DefaultMinLength == 80
DefaultMaxQueries == 2
ThumbCap == 8

None == "none"
Null ==
  [url |-> None, thumbnail |-> None, title |-> None, source |-> None,
   query |-> None]

Urls == {"u1", "u2"}
MsgIds == 0 .. (NumMsgs - 1)
Runs == 1 .. MaxRuns
Restores == 1 .. MaxRestores

Min(a, b) == IF a < b THEN a ELSE b
Max(a, b) == IF a < b THEN b ELSE a

----------------------------------------------------------------------------
(* ui.js: the loading placeholder, the image wrapper, the annotation *)

\* insertLoadingPlaceholder: one more placeholder in the message element,
\* nothing when the message is not rendered
InsertLoadingPlaceholder(d, m) ==
  IF m \in DOMAIN d /\ d[m].el
    THEN [d EXCEPT ![m].loading = @ + 1]
    ELSE d

\* removeLoadingPlaceholder: removes the first placeholder carrying the id
RemoveLoadingPlaceholder(d, m) ==
  IF m \in DOMAIN d /\ d[m].loading > 0
    THEN [d EXCEPT ![m].loading = @ - 1]
    ELSE d

\* an annotation written without the title of the image
AnnotationWithoutTitle(img) ==
  [url |-> img.url, thumbnail |-> img.thumbnail, query |-> img.query,
   source |-> img.source, title |-> None]

\* the fields insertImageToMessage copies into message.extra.auto_illust
AnnotationOf(img) ==
  [url |-> img.url, thumbnail |-> img.thumbnail, query |-> img.query,
   source |-> img.source, title |-> img.title]

\* insertImageToMessage up to its await of saveChat:
\* saving = TRUE when it wrote the annotation and suspended at saveChat
InsertImageToMessage(m, img, c, d) ==
  IF ~(m \in DOMAIN d /\ d[m].el)
    THEN [chat |-> c, dom |-> d, saving |-> FALSE]
    ELSE LET d2 == [d EXCEPT ![m].loading = IF @ > 0 THEN @ - 1 ELSE @,
                             ![m].imgs = Append(@, AnnotationOf(img))]
         IN IF m \in DOMAIN c
              THEN [chat |-> [c EXCEPT ![m].illust = AnnotationOf(img)],
                    dom |-> d2, saving |-> TRUE]
              ELSE [chat |-> c, dom |-> d2, saving |-> FALSE]

----------------------------------------------------------------------------
(* search.js: the strategies as the pipeline sees them, and searchBoth *)

Take(seq, n) == SubSeq(seq, 1, Min(n, Len(seq)))

\* Array.prototype.slice(0, n): a negative n counts from the end
SliceTo(seq, n) ==
  IF n >= 0 THEN Take(seq, n) ELSE SubSeq(seq, 1, Max(Len(seq) + n, 0))

\* the loop of searchBoth from index i on (1-based): wiki[i] then google[i]
RECURSIVE MergeFrom(_, _, _)
MergeFrom(wikiResults, googleResults, i) ==
  IF i > Max(Len(wikiResults), Len(googleResults))
    THEN <<>>
    ELSE (IF i <= Len(wikiResults) THEN <<wikiResults[i]>> ELSE <<>>)
         \o (IF i <= Len(googleResults) THEN <<googleResults[i]>> ELSE <<>>)
         \o MergeFrom(wikiResults, googleResults, i + 1)

\* a merge that appends one list to the other
MergeByConcatenation(wikiResults, googleResults) ==
  wikiResults \o googleResults

\* searchBoth once both strategies have returned
SearchBothMerge(wikiResults, googleResults) ==
  MergeFrom(wikiResults, googleResults, 1)

\* searchWikimedia: w is its de-duplicated result list before the final slice
SearchWikimedia(s, w) == SliceTo(w, s.candidates_per_source)

\* searchGoogle: empty without a credential; g is the filtered backend list
SearchGoogle(s, g) ==
  IF ~s.serper_api_key THEN <<>> ELSE SliceTo(g, s.candidates_per_source)

\* a fallback that does not look at the credential
FallsBackWheneverEmpty(s, results) == Len(results) = 0

\* the test after searchWikimedia in case 'wiki': go on to searchGoogle
FallsBackToGoogle(s, results) == Len(results) = 0 /\ s.serper_api_key

\* the switch of onMessageReceived for one query
QueryResults(s, querySource, w, g) ==
  CASE querySource = "wiki" ->
         IF FallsBackToGoogle(s, SearchWikimedia(s, w))
           THEN SearchGoogle(s, g)
           ELSE SearchWikimedia(s, w)
    [] querySource = "google" -> SearchGoogle(s, g)
    [] OTHER -> SearchBothMerge(SearchWikimedia(s, w), SearchGoogle(s, g))

\* a push of the results as the strategy returned them
TaggedWithoutQuery(results, query) ==
  [i \in 1 .. Len(results) |-> [query |-> None] @@ results[i]]

\* results.map(r => ({ ...r, query }))
Tagged(results, query) ==
  [i \in 1 .. Len(results) |-> [query |-> query] @@ results[i]]

----------------------------------------------------------------------------
(* ai.js: extractKeywords and selectBestImage *)

\* extractKeywords after callAI returned its text: the parsed analysis
ExtractKeywords(reply) ==
  IF reply.kind = "json"
    THEN [queries |-> reply.queries,
          source |-> IF Len(reply.queries) > 0 /\ reply.queries[1].source # None
                       THEN reply.queries[1].source
                       ELSE "both"]
    ELSE [queries |-> <<>>, source |-> "both"]

\* result.selected after the two parsing tiers of selectBestImage.
\* reply.kind: "json"    the {...} match parses; the field is read as JSON
\*             "nobrace" no {...} match: '{}' is parsed, no field
\*             "badjson" the match does not parse: /"selected"\s*:\s*(\d+)/
\* reply.form: how the text writes the field (digits, negative, quoted, absent)
ParsedSelected(reply) ==
  CASE reply.kind = "json" /\ reply.form = "digits" ->
         [isNumber |-> TRUE, val |-> reply.val]
    [] reply.kind = "json" /\ reply.form = "negative" ->
         [isNumber |-> TRUE, val |-> 0 - reply.val]
    [] reply.kind = "badjson" /\ reply.form = "digits" ->
         [isNumber |-> TRUE, val |-> reply.val]
    [] OTHER -> [isNumber |-> FALSE, val |-> 0]

\* a range check that clamps the index into the pool
AcceptVerdictClamped(candidates, selected) ==
  IF selected.isNumber
    THEN candidates[Max(0, Min(selected.val, Len(candidates) - 1)) + 1]
    ELSE Null

\* the range check on result.selected and the return that follows it
AcceptVerdict(candidates, selected) ==
  IF selected.isNumber /\ selected.val >= 0 /\ selected.val < Len(candidates)
    THEN candidates[selected.val + 1]
    ELSE Null

\* a selector that gives up when callAIWithImages throws
SelectAfterModelFailClosed(candidates, reply) ==
  IF reply.kind = "error"
    THEN Null
    ELSE AcceptVerdict(candidates, ParsedSelected(reply))

\* selectBestImage after callAIWithImages settled
SelectAfterModel(candidates, reply) ==
  IF reply.kind = "error"
    THEN candidates[1]
    ELSE AcceptVerdict(candidates, ParsedSelected(reply))

\* candidates.slice(0, 8): the 1-based pool positions whose thumbnail is fetched
ThumbIndexes(candidates) == 1 .. Min(ThumbCap, Len(candidates))

\* selectBestImage as one function of what its network calls answer:
\* ok = the positions whose thumbnail fetch succeeded, ai = AI configured
SelectBestImage(candidates, ok, ai, reply) ==
  IF Len(candidates) = 0 THEN Null
  ELSE IF Len(candidates) = 1 THEN candidates[1]
  ELSE IF ok \cap ThumbIndexes(candidates) = {} THEN candidates[1]
  ELSE IF ~ai THEN candidates[1]
  ELSE SelectAfterModel(candidates, reply)

----------------------------------------------------------------------------
(* index.js: settings, and what the backends answer *)

DefaultSettings ==
  [enabled |-> FALSE, auto_mode |-> TRUE, ai_ok |-> FALSE,
   serper_api_key |-> FALSE, min_message_length |-> DefaultMinLength,
   max_queries |-> DefaultMaxQueries, candidates_per_source |-> 4,
   search_preference |-> "smart"]

\* message lengths: below the minimum, and exactly the minimum
MsgLens == {50, DefaultMinLength}

\* an annotation persisted with the chat by an earlier session
Persisted ==
  [url |-> "u1", thumbnail |-> "t1", title |-> "a1", source |-> "wiki",
   query |-> "q0"]

MsgKinds ==
  {[is_user |-> TRUE, len |-> DefaultMinLength, illust |-> Null, chatId |-> 0]}
  \cup {[is_user |-> FALSE, len |-> l, illust |-> Null, chatId |-> 0] : l \in MsgLens}
  \cup {[is_user |-> FALSE, len |-> DefaultMinLength, illust |-> Persisted, chatId |-> 0]}

\* the i-th query of a reply is "q<i>"
QueryText(i) == <<"q1", "q2", "q3", "q4">>[i]
QuerySources == {"wiki", "google", None}

\* result.queries of a completion reply: every list of at most n items
QueryLists(n) ==
  UNION {{[i \in 1 .. k |-> [query |-> QueryText(i), source |-> f[i]]] :
            f \in [1 .. k -> QuerySources]} : k \in 0 .. n}

\* what callAI gives extractKeywords: it throws, or a text that parses or not
ExtractReplies(n) ==
  {[kind |-> "throw", queries |-> <<>>], [kind |-> "garbled", queries |-> <<>>]}
  \cup {[kind |-> "json", queries |-> q] : q \in QueryLists(n)}

\* a strategy's result list for one query: distinct urls, at most n of them
RECURSIVE NoDupLists(_, _)
NoDupLists(S, n) ==
  IF n = 0 THEN {<<>>}
  ELSE {<<>>} \cup UNION {{<<u>> \o t : t \in NoDupLists(S \ {u}, n - 1)} : u \in S}

\* the thumbnail and the title a strategy puts on the image of a url
ThumbnailOf(u) == IF u = "u1" THEN "t1" ELSE "t2"
TitleOf(u) == IF u = "u1" THEN "a1" ELSE "a2"

WikiReplies(n) ==
  {[i \in 1 .. Len(l) |->
      [url |-> l[i], thumbnail |-> ThumbnailOf(l[i]), title |-> TitleOf(l[i]),
       source |-> "wiki"]] : l \in NoDupLists(Urls, n)}
GoogleReplies(n) ==
  {[i \in 1 .. Len(l) |->
      [url |-> l[i], thumbnail |-> ThumbnailOf(l[i]), title |-> TitleOf(l[i]),
       source |-> "google"]] : l \in NoDupLists(Urls, n)}

\* what callAIWithImages gives selectBestImage
VerdictForms == {"digits", "negative", "quoted", "absent"}
ModelReplies(n) ==
  {[kind |-> "error", form |-> "absent", val |-> 0]}
  \cup {v \in [kind : {"json", "nobrace", "badjson"}, form : VerdictForms, val : 0 .. n] :
          v.form = "negative" => v.val > 0}

----------------------------------------------------------------------------
(* index.js: onMessageReceived *)

IdleRun ==
  [pc |-> "idle", mid |-> 0 - 1, queries |-> <<>>, source |-> None,
   pool |-> <<>>, best |-> Null, called |-> FALSE, shown |-> FALSE,
   wrote |-> FALSE, outcome |-> None, chatId |-> 0 - 1]

\* a run whose return statement is skipped: it stays at the call it made
FinishedStillRunning(rr, out) == [rr EXCEPT !.outcome = out]

\* a run that returned: its locals are dropped
Finished(rr, out) ==
  [rr EXCEPT !.pc = "done", !.outcome = out, !.queries = <<>>,
             !.source = None, !.pool = <<>>, !.best = Null]

\* the guard without its test of message.extra.auto_illust
GuardWithoutAnnotationTest(s, c, m) ==
  IF ~s.enabled THEN "disabled"
  ELSE IF ~(m \in DOMAIN c) THEN "missing"
  ELSE IF c[m].is_user THEN "user"
  ELSE IF c[m].len < s.min_message_length THEN "short"
  ELSE "pass"

\* the guard without its test of the message length
GuardWithoutLengthTest(s, c, m) ==
  IF ~s.enabled THEN "disabled"
  ELSE IF ~(m \in DOMAIN c) THEN "missing"
  ELSE IF c[m].is_user THEN "user"
  ELSE IF c[m].illust # Null THEN "annotated"
  ELSE "pass"

\* the early returns of onMessageReceived, in order: the return taken, or
\* "pass" when the run goes on
Guard(s, c, m) ==
  IF ~s.enabled THEN "disabled"
  ELSE IF ~(m \in DOMAIN c) THEN "missing"
  ELSE IF c[m].is_user THEN "user"
  ELSE IF c[m].len < s.min_message_length THEN "short"
  ELSE IF c[m].illust # Null THEN "annotated"
  ELSE "pass"

GuardReturns == {"disabled", "missing", "user", "short", "annotated"}

\* await insertImageToMessage(messageId, best)
Commit(rr, best, c, d) ==
  LET res == InsertImageToMessage(rr.mid, best, c, d)
  IN IF res.saving
       THEN [run |-> [rr EXCEPT !.pc = "save", !.best = best, !.wrote = TRUE,
                                !.queries = <<>>, !.source = None, !.pool = <<>>],
             chat |-> res.chat, dom |-> res.dom]
       ELSE [run |-> Finished(rr, "unrendered"), chat |-> res.chat, dom |-> res.dom]

\* a step 4 that commits without looking at auto_mode
Step4AlwaysCommits(rr, best, c, d, s) == Commit(rr, best, c, d)

\* step 4: commit in auto mode, else clear the indicator and ask
Step4(rr, best, c, d, s) ==
  IF s.auto_mode
    THEN Commit(rr, best, c, d)
    ELSE [run |-> [rr EXCEPT !.pc = "confirm", !.best = best,
                             !.queries = <<>>, !.source = None, !.pool = <<>>],
          chat |-> c, dom |-> RemoveLoadingPlaceholder(d, rr.mid)]

\* a continuation that does not test the selector's answer for null
AfterSelectWithoutNullTest(rr, best, c, d, s) == Step4(rr, best, c, d, s)

\* from the return of selectBestImage on
AfterSelect(rr, best, c, d, s) ==
  IF best = Null
    THEN [run |-> Finished(rr, "skipped"), chat |-> c,
          dom |-> RemoveLoadingPlaceholder(d, rr.mid)]
    ELSE Step4(rr, best, c, d, s)

\* from the end of the query loop on: a pool of one candidate comes back from
\* selectBestImage without a suspension at a network call
AfterSearch(rr, pool, c, d, s) ==
  IF Len(pool) = 0
    THEN [run |-> Finished(rr, "skipped"), chat |-> c,
          dom |-> RemoveLoadingPlaceholder(d, rr.mid)]
    ELSE IF Len(pool) = 1
      THEN AfterSelect(rr, SelectBestImage(pool, {}, s.ai_ok, Null), c, d, s)
      ELSE [run |-> [rr EXCEPT !.pc = "select", !.pool = pool, !.queries = <<>>,
                               !.source = None],
            chat |-> c, dom |-> d]

\* an effective source that ignores the hint of the query item
QuerySourceIgnoringItem(item, source) == source

\* the effective source of a query item
QuerySource(item, source) ==
  IF item.source # None THEN item.source ELSE source

Apply(r, res) ==
  /\ run' = [run EXCEPT ![r] = res.run]
  /\ chat' = res.chat
  /\ dom' = res.dom

\* MESSAGE_RECEIVED fires for message id m: the guard, the indicator, and
\* extractKeywords up to the fetch of callAI (which throws when AI is unset)
Invoke(r, m) ==
  /\ run[r].pc = "idle"
  /\ LET rr == [run[r] EXCEPT !.mid = m]
     IN IF Guard(settings, chat, m) # "pass"
          THEN Apply(r, [run |-> Finished(rr, Guard(settings, chat, m)),
                         chat |-> chat, dom |-> dom])
          ELSE LET d1 == InsertLoadingPlaceholder(dom, m)
                   r1 == [rr EXCEPT !.shown = (d1 # dom), !.chatId = chat[m].chatId]
               IN IF ~settings.ai_ok
                    THEN Apply(r, [run |-> Finished(r1, "failed"), chat |-> chat,
                                   dom |-> RemoveLoadingPlaceholder(d1, m)])
                    ELSE Apply(r, [run |-> [r1 EXCEPT !.pc = "extract", !.called = TRUE],
                                   chat |-> chat, dom |-> d1])
  /\ UNCHANGED <<settings, restore, both, sel, agg, srch>>

\* callAI settles: extractKeywords returns (or throws), the loop starts
ExtractReturns(r, reply) ==
  /\ run[r].pc = "extract"
  /\ LET rr == run[r]
         analysis == ExtractKeywords(reply)
         source == IF settings.search_preference = "smart"
                     THEN analysis.source
                     ELSE settings.search_preference
     IN IF reply.kind = "throw"
          THEN Apply(r, [run |-> Finished(rr, "failed"), chat |-> chat,
                         dom |-> RemoveLoadingPlaceholder(dom, rr.mid)])
          ELSE IF Len(analysis.queries) = 0
            THEN Apply(r, [run |-> Finished(rr, "skipped"), chat |-> chat,
                           dom |-> RemoveLoadingPlaceholder(dom, rr.mid)])
            ELSE IF Len(SliceTo(analysis.queries, settings.max_queries)) = 0
              THEN Apply(r, AfterSearch(rr, <<>>, chat, dom, settings))
              ELSE Apply(r, [run |-> [rr EXCEPT !.pc = "search", !.source = source,
                                        !.queries = SliceTo(analysis.queries, settings.max_queries)],
                             chat |-> chat, dom |-> dom])
  /\ UNCHANGED <<settings, restore, both, sel, agg, srch>>

\* the search of the current query settles: w and g are what the two
\* strategies answer when asked
SearchReturns(r, w, g) ==
  /\ run[r].pc = "search"
  /\ LET rr == run[r]
         item == Head(rr.queries)
         results == QueryResults(settings, QuerySource(item, rr.source), w, g)
         pool == rr.pool \o Tagged(results, item.query)
     IN IF Len(rr.queries) > 1
          THEN Apply(r, [run |-> [rr EXCEPT !.queries = Tail(@), !.pool = pool],
                         chat |-> chat, dom |-> dom])
          ELSE Apply(r, AfterSearch(rr, pool, chat, dom, settings))
  /\ UNCHANGED <<settings, restore, both, sel, agg, srch>>

\* selectBestImage settles for a pool of two or more candidates
SelectReturns(r, ok, reply) ==
  /\ run[r].pc = "select"
  /\ Apply(r, AfterSelect(run[r], SelectBestImage(run[r].pool, ok, settings.ai_ok, reply),
                          chat, dom, settings))
  /\ UNCHANGED <<settings, restore, both, sel, agg, srch>>

\* the approver clicks a button of showConfirmPopup
ConfirmDecides(r, confirmed) ==
  /\ run[r].pc = "confirm"
  /\ IF confirmed
       THEN Apply(r, Commit(run[r], run[r].best, chat, dom))
       ELSE Apply(r, [run |-> Finished(run[r], "declined"), chat |-> chat, dom |-> dom])
  /\ UNCHANGED <<settings, restore, both, sel, agg, srch>>

\* context.saveChat() settles; when it throws, the catch clears an indicator
SaveReturns(r, saved) ==
  /\ run[r].pc = "save"
  /\ IF saved
       THEN Apply(r, [run |-> Finished(run[r], "committed"), chat |-> chat, dom |-> dom])
       ELSE Apply(r, [run |-> Finished(run[r], "failed"), chat |-> chat,
                      dom |-> RemoveLoadingPlaceholder(dom, run[r].mid)])
  /\ UNCHANGED <<settings, restore, both, sel, agg, srch>>

\* the change handlers of #ai_enabled and #ai_auto_mode
SetEnabled(b) ==
  /\ settings.enabled # b
  /\ settings' = [settings EXCEPT !.enabled = b]
  /\ UNCHANGED <<chat, dom, run, restore, both, sel, agg, srch>>

SetAutoMode(b) ==
  /\ settings.auto_mode # b
  /\ settings' = [settings EXCEPT !.auto_mode = b]
  /\ UNCHANGED <<chat, dom, run, restore, both, sel, agg, srch>>

\* the messages of the transcript the host switches to
SwitchKinds ==
  {[is_user |-> TRUE, len |-> DefaultMinLength, illust |-> Null, chatId |-> 1],
   [is_user |-> FALSE, len |-> DefaultMinLength, illust |-> Null, chatId |-> 1],
   [is_user |-> FALSE, len |-> DefaultMinLength, illust |-> Persisted, chatId |-> 1]}

\* the host switches to another chat: context.chat holds its messages and
\* the document is rendered anew, without placeholders and wrappers
ChatSwitch(c) ==
  /\ \A m \in MsgIds : chat[m].chatId = 0
  /\ chat' = c
  /\ dom' = [m \in MsgIds |-> [el |-> TRUE, loading |-> 0, imgs |-> <<>>]]
  /\ UNCHANGED <<settings, run, restore, both, sel, agg, srch>>

----------------------------------------------------------------------------
(* ui.js: restoreAllImages *)

IdleRestore == [pc |-> "idle", i |-> 0]

\* the for loop from index `from` on, up to the next await of
\* insertImageToMessage or the end of the chat
RECURSIVE RestoreLoop(_, _, _)
RestoreLoop(from, c, d) ==
  IF from >= NumMsgs
    THEN [restore |-> [pc |-> "done", i |-> 0], chat |-> c, dom |-> d]
    ELSE IF \/ c[from].illust = Null
            \/ ~d[from].el
            \/ d[from].loading > 0
            \/ Len(d[from].imgs) > 0
      THEN RestoreLoop(from + 1, c, d)
      ELSE LET res == InsertImageToMessage(from, c[from].illust, c, d)
           IN IF res.saving
                THEN [restore |-> [pc |-> "save", i |-> from],
                      chat |-> res.chat, dom |-> res.dom]
                ELSE RestoreLoop(from + 1, res.chat, res.dom)

ApplyRestore(k, res) ==
  /\ restore' = [restore EXCEPT ![k] = res.restore]
  /\ chat' = res.chat
  /\ dom' = res.dom

\* CHAT_CHANGED fires: restoreAllImages starts and waits 500 ms
RestoreStart(k) ==
  /\ restore[k].pc = "idle"
  /\ restore' = [restore EXCEPT ![k].pc = "delay"]
  /\ UNCHANGED <<settings, chat, dom, run, both, sel, agg, srch>>

\* the delay ends: the loop runs to its first insertImageToMessage
RestoreWake(k) ==
  /\ restore[k].pc = "delay"
  /\ ApplyRestore(k, RestoreLoop(0, chat, dom))
  /\ UNCHANGED <<settings, run, both, sel, agg, srch>>

\* saveChat settles inside insertImageToMessage: the loop goes on, or the
\* rejection ends restoreAllImages
RestoreSaveReturns(k, saved) ==
  /\ restore[k].pc = "save"
  /\ IF saved
       THEN ApplyRestore(k, RestoreLoop(restore[k].i + 1, chat, dom))
       ELSE ApplyRestore(k, [restore |-> [pc |-> "done", i |-> 0],
                             chat |-> chat, dom |-> dom])
  /\ UNCHANGED <<settings, run, both, sel, agg, srch>>

----------------------------------------------------------------------------
(* search.js: searchBoth as a process *)

Pending == [settled |-> FALSE, results |-> <<>>]
IdleBoth == [pc |-> "idle", wiki |-> Pending, google |-> Pending, merged |-> <<>>]

MergeUrls == {"u1", "u2", "u3"}

\* result lists of the two strategies, at most n long
MergeWikiLists(n) ==
  {[i \in 1 .. Len(l) |-> [url |-> l[i], source |-> "wiki"]] : l \in NoDupLists(MergeUrls, n)}
MergeGoogleLists(n) ==
  UNION {{[i \in 1 .. k |-> [url |-> f[i], source |-> "google"]] :
            f \in [1 .. k -> MergeUrls]} : k \in 0 .. n}

\* searchWikimedia(query) of the Promise.all settles
BothWikiSettles(w) ==
  /\ both.pc = "waiting"
  /\ ~both.wiki.settled
  /\ both' = [both EXCEPT !.wiki = [settled |-> TRUE, results |-> w]]
  /\ UNCHANGED <<settings, chat, dom, run, restore, sel, agg, srch>>

\* searchGoogle(query) of the Promise.all settles
BothGoogleSettles(g) ==
  /\ both.pc = "waiting"
  /\ ~both.google.settled
  /\ both' = [both EXCEPT !.google = [settled |-> TRUE, results |-> g]]
  /\ UNCHANGED <<settings, chat, dom, run, restore, sel, agg, srch>>

\* both settled: the merge loop runs and searchBoth returns
BothJoin ==
  /\ both.pc = "waiting"
  /\ both.wiki.settled /\ both.google.settled
  /\ both' = [both EXCEPT !.pc = "done",
                          !.merged = SearchBothMerge(both.wiki.results, both.google.results)]
  /\ UNCHANGED <<settings, chat, dom, run, restore, sel, agg, srch>>

----------------------------------------------------------------------------
(* ai.js: selectBestImage as a process *)

NoReply == [kind |-> None, form |-> "absent", val |-> 0]

IdleSel ==
  [pc |-> "idle", candidates |-> <<>>, ai |-> FALSE, parts |-> <<>>,
   reply |-> NoReply, result |-> Null, fetches |-> 0, calls |-> 0,
   submitted |-> <<>>]

\* the pools of 0 .. n candidates; candidate i has url "i"
Pools(n) ==
  {[i \in 1 .. k |-> [url |-> ToString(i),
                      source |-> IF i % 2 = 1 THEN "wiki" ELSE "google",
                      query |-> "q1"]] : k \in 0 .. n}

\* selectBestImage without the early return for a pool of one
SelStartWithoutSingleReturn ==
  /\ sel.pc = "called"
  /\ sel' = IF Len(sel.candidates) = 0
              THEN [sel EXCEPT !.pc = "done", !.result = Null]
              ELSE [sel EXCEPT !.pc = "fetching",
                               !.parts = [i \in ThumbIndexes(sel.candidates) |-> "pending"],
                               !.fetches = Cardinality(ThumbIndexes(sel.candidates))]
  /\ UNCHANGED <<settings, chat, dom, run, restore, both, agg, srch>>

\* the two early returns, else one thumbnail fetch per position of the prefix
SelStart ==
  /\ sel.pc = "called"
  /\ sel' = IF Len(sel.candidates) = 0
              THEN [sel EXCEPT !.pc = "done", !.result = Null]
              ELSE IF Len(sel.candidates) = 1
                THEN [sel EXCEPT !.pc = "done", !.result = sel.candidates[1]]
                ELSE [sel EXCEPT !.pc = "fetching",
                                 !.parts = [i \in ThumbIndexes(sel.candidates) |-> "pending"],
                                 !.fetches = Cardinality(ThumbIndexes(sel.candidates))]
  /\ UNCHANGED <<settings, chat, dom, run, restore, both, agg, srch>>

\* one thumbnail fetch settles: an image part, or null (network error,
\* non-success status, non-image content)
SelFetchSettles(i, fetched) ==
  /\ sel.pc = "fetching"
  /\ i \in DOMAIN sel.parts
  /\ sel.parts[i] = "pending"
  /\ sel' = [sel EXCEPT !.parts[i] = IF fetched THEN "ok" ELSE "null"]
  /\ UNCHANGED <<settings, chat, dom, run, restore, both, agg, srch>>

\* a collection of the parts that stops at the first failed fetch
RECURSIVE ImagePartsUntilFailure(_, _)
ImagePartsUntilFailure(parts, i) ==
  IF i \notin DOMAIN parts \/ parts[i] # "ok"
    THEN <<>>
    ELSE <<i>> \o ImagePartsUntilFailure(parts, i + 1)

\* (await Promise.all(...)).filter(Boolean): the positions of the image
\* parts, in the order of the array, from position i on
RECURSIVE ImageParts(_, _)
ImageParts(parts, i) ==
  IF i \notin DOMAIN parts
    THEN <<>>
    ELSE (IF parts[i] = "ok" THEN <<i>> ELSE <<>>) \o ImageParts(parts, i + 1)

\* a join that calls the model even when no thumbnail was fetched
SelJoinWithoutAllFailedReturn ==
  /\ sel.pc = "fetching"
  /\ \A i \in DOMAIN sel.parts : sel.parts[i] # "pending"
  /\ sel' = IF ~sel.ai
              THEN [sel EXCEPT !.pc = "done", !.result = sel.candidates[1]]
              ELSE [sel EXCEPT !.pc = "model", !.calls = @ + 1,
                               !.submitted = ImageParts(sel.parts, 1)]
  /\ UNCHANGED <<settings, chat, dom, run, restore, both, agg, srch>>

\* Promise.all settles: no part -> candidates[0]; else callAIWithImages,
\* which throws before its fetch when AI is not configured
SelJoin ==
  /\ sel.pc = "fetching"
  /\ \A i \in DOMAIN sel.parts : sel.parts[i] # "pending"
  /\ sel' = IF {i \in DOMAIN sel.parts : sel.parts[i] = "ok"} = {} \/ ~sel.ai
              THEN [sel EXCEPT !.pc = "done", !.result = sel.candidates[1]]
              ELSE [sel EXCEPT !.pc = "model", !.calls = @ + 1,
                               !.submitted = ImageParts(sel.parts, 1)]
  /\ UNCHANGED <<settings, chat, dom, run, restore, both, agg, srch>>

\* callAIWithImages settles
SelModelSettles(reply) ==
  /\ sel.pc = "model"
  /\ sel' = [sel EXCEPT !.pc = "done", !.reply = reply,
                        !.result = SelectAfterModel(sel.candidates, reply)]
  /\ UNCHANGED <<settings, chat, dom, run, restore, both, agg, srch>>

----------------------------------------------------------------------------
(* index.js: the query loop of onMessageReceived (step 2) as a process *)

NoItem == [query |-> None, source |-> None]

IdleAgg ==
  [pc |-> "idle", analysis |-> [queries |-> <<>>, source |-> None],
   source |-> None, queries |-> <<>>, item |-> NoItem, effective |-> None,
   asked |-> <<>>, wiki |-> <<>>, google |-> <<>>, pool |-> <<>>, hist |-> <<>>]

\* the hints a reply may carry on a query: the two strategies, both, none,
\* and a value the switch does not know
AggHints == QuerySources \cup {"both", "commons"}

AggQueryLists(n) ==
  UNION {{[i \in 1 .. k |-> [query |-> QueryText(i), source |-> f[i]]] :
            f \in [1 .. k -> AggHints]} : k \in 1 .. n}

\* the input handler of #ai_max_queries: parseInt(this.value) || 2
MaxQueriesInput(typed) == IF typed = 0 THEN DefaultMaxQueries ELSE typed

\* numbers typed into #ai_max_queries (0 also stands for a text that is
\* no number)
TypedMaxQueries == {0 - 1, 0, 1, 3}

AggSettings ==
  {[DefaultSettings EXCEPT !.enabled = TRUE, !.ai_ok = TRUE,
                           !.serper_api_key = k, !.search_preference = p,
                           !.max_queries = MaxQueriesInput(q)] :
     k \in BOOLEAN, p \in {"smart", "both", "wiki", "google"},
     q \in TypedMaxQueries}

\* the function the switch calls for an effective source
StrategyFor(querySource) ==
  CASE querySource = "wiki" -> "searchWikimedia"
    [] querySource = "google" -> "searchGoogle"
    [] OTHER -> "searchBoth"

\* the head of the for loop up to the first await of the switch
AggDispatch(a) ==
  IF Len(a.queries) = 0
    THEN [a EXCEPT !.pc = "done"]
    ELSE LET item == Head(a.queries)
             querySource == QuerySource(item, a.source)
         IN [a EXCEPT !.pc = CASE querySource = "wiki" -> "wiki"
                               [] querySource = "google" -> "google"
                               [] OTHER -> "both",
                      !.item = item, !.effective = querySource,
                      !.asked = <<StrategyFor(querySource)>>,
                      !.queries = Tail(@)]

\* allCandidates.push(...results.map(r => ({ ...r, query }))), then the
\* next iteration
AggPush(a, results) ==
  AggDispatch([a EXCEPT !.pool = @ \o Tagged(results, a.item.query),
                        !.hist = Append(@, [query |-> a.item.query,
                                            hint |-> a.item.source,
                                            effective |-> a.effective,
                                            asked |-> a.asked,
                                            wiki |-> a.wiki,
                                            google |-> a.google,
                                            results |-> results]),
                        !.item = NoItem, !.effective = None, !.asked = <<>>,
                        !.wiki = <<>>, !.google = <<>>])

\* extractKeywords returned a non-empty analysis: source, slice, first query
AggStart ==
  /\ agg.pc = "called"
  /\ agg' = AggDispatch([agg EXCEPT
                !.source = IF settings.search_preference = "smart"
                             THEN agg.analysis.source
                             ELSE settings.search_preference,
                !.queries = SliceTo(agg.analysis.queries, settings.max_queries)])
  /\ UNCHANGED <<settings, chat, dom, run, restore, both, sel, srch>>

\* case 'wiki': searchWikimedia settles; on no result and with a credential
\* searchGoogle is called
AggWikiReturns(w) ==
  /\ agg.pc = "wiki"
  /\ LET results == SearchWikimedia(settings, w)
     IN agg' = IF FallsBackToGoogle(settings, results)
                 THEN [agg EXCEPT !.pc = "fallback", !.wiki = results,
                                  !.asked = Append(@, "searchGoogle")]
                 ELSE AggPush([agg EXCEPT !.wiki = results], results)
  /\ UNCHANGED <<settings, chat, dom, run, restore, both, sel, srch>>

\* searchGoogle settles, in case 'google' or as the fallback of case 'wiki'
AggGoogleReturns(g) ==
  /\ agg.pc \in {"google", "fallback"}
  /\ LET results == SearchGoogle(settings, g)
     IN agg' = AggPush([agg EXCEPT !.google = results], results)
  /\ UNCHANGED <<settings, chat, dom, run, restore, both, sel, srch>>

\* searchBoth settles, in case 'both' or the default case
AggBothReturns(w, g) ==
  /\ agg.pc = "both"
  /\ LET wr == SearchWikimedia(settings, w)
         gr == SearchGoogle(settings, g)
     IN agg' = AggPush([agg EXCEPT !.wiki = wr, !.google = gr],
                       SearchBothMerge(wr, gr))
  /\ UNCHANGED <<settings, chat, dom, run, restore, both, sel, srch>>

----------------------------------------------------------------------------
(* search.js: the strategies and their sub-requests as a process *)

\* a text: its lower-case form, and whether it is written with capitals
EmptyText == [lower |-> "", cased |-> FALSE]

\* a comparison that keeps the capitals
ToLowerCaseIdentity(t) == t

\* String.prototype.toLowerCase
ToLowerCase(t) == [t EXCEPT !.cased = FALSE]

WATERMARK_DOMAINS ==
  {"shutterstock.com", "gettyimages.", "istockphoto.com", "alamy.com",
   "depositphotos.com", "123rf.com", "dreamstime.com", "stock.adobe.com",
   "bigstockphoto.com", "thinkstockphotos.com", "dissolve.com", "pond5.com",
   "vectorstock.com", "canstockphoto.com"}

\* the lower-case texts of the model and the entries that occur in them
Substring(lower, wd) ==
  \/ lower = "www.shutterstock.com" /\ wd = "shutterstock.com"
  \/ lower = "media.gettyimages.co.uk" /\ wd = "gettyimages."

\* String.prototype.includes compares case-sensitively: a text written with
\* capitals holds no lower-case entry
Includes(d, wd) == ~d.cased /\ Substring(d.lower, wd)

\* isWatermarkDomain
IsWatermarkDomain(domain) ==
  IF domain = EmptyText
    THEN FALSE
    ELSE LET d == ToLowerCase(domain)
         IN \E wd \in WATERMARK_DOMAINS : Includes(d, wd)

\* a || b on texts
OrText(a, b) == IF a # EmptyText THEN a ELSE b

SourceTexts ==
  {EmptyText,
   [lower |-> "example.org", cased |-> FALSE],
   [lower |-> "www.shutterstock.com", cased |-> FALSE],
   [lower |-> "www.shutterstock.com", cased |-> TRUE]}
LinkTexts ==
  {[lower |-> "example.org", cased |-> FALSE],
   [lower |-> "media.gettyimages.co.uk", cased |-> TRUE]}

\* the source and link of a backend item; an item of a watermark provider
\* links to its own site
ItemTexts ==
  {p \in SourceTexts \X LinkTexts :
     IsWatermarkDomain(p[1]) => IsWatermarkDomain(p[2])}

MaxItems == 3
MaxWikiList == 2

GoogleUrl(i) == "g" \o ToString(i)

\* data.images of a Serper reply, at most n items
GoogleImages(n) ==
  UNION {{[i \in 1 .. k |-> [imageUrl |-> GoogleUrl(i), source |-> f[i][1], link |-> f[i][2]]] :
            f \in [1 .. k -> ItemTexts]} : k \in 0 .. n}

\* how a fetch and the reading of its body end: the fetch rejects, the
\* status is not a success, the body is no JSON, the body has not the
\* expected shape, or the list is delivered
FailureKinds == {"rejected", "status", "badjson", "badshape"}
NoResponse == [kind |-> None, list |-> <<>>]
Failures == {[kind |-> k, list |-> <<>>] : k \in FailureKinds}
GoogleResponses(n) == Failures \cup {[kind |-> "ok", list |-> l] : l \in GoogleImages(n)}

\* the lists of candidates over the urls S, at most n long
WikiLists(S, source, n) ==
  UNION {{[i \in 1 .. k |-> [url |-> f[i], source |-> source]] : f \in [1 .. k -> S]} :
           k \in 0 .. n}
\* source: `${lang}.wikipedia`
ArticleSource(lang) == IF lang = "zh" THEN "zh.wikipedia" ELSE "en.wikipedia"
ArticleResponses(lang, n) ==
  Failures \cup {[kind |-> "ok", list |-> l] :
                   l \in WikiLists({"w1", "w2"}, ArticleSource(lang), n)}
CommonsInfoResponses(n) ==
  Failures \cup {[kind |-> "ok", list |-> l] : l \in WikiLists({"w1", "w3"}, "commons", n)}
\* the file search of Commons: a failure, no file, or some files
CommonsSearchResponses == Failures \cup {[kind |-> k, list |-> <<>>] : k \in {"nofile", "ok"}}

\* a function body without its try/catch
Uncaught(outcome) == outcome

\* try { ... } catch (e) { console.error(...); return []; }
Caught(outcome) ==
  IF outcome.threw THEN [threw |-> FALSE, results |-> <<>>] ELSE outcome

\* the statements inside the try of a sub-request, for a response: they
\* throw unless the list is delivered
TryBody(resp, results) ==
  IF resp.kind \in FailureKinds
    THEN [threw |-> TRUE, results |-> <<>>]
    ELSE [threw |-> FALSE, results |-> results]

\* the filter callback of searchGoogle
KeepItem(item) == ~IsWatermarkDomain(ToLowerCase(OrText(item.source, item.link)))

\* the map callback of searchGoogle
GoogleResult(item) ==
  [url |-> item.imageUrl, source |-> "google", link |-> item.link, domain |-> item.source]

\* searchGoogle from the settled fetch on
SearchGoogleSettled(resp, limit) ==
  Caught(TryBody(resp,
    LET kept == SelectSeq(resp.list, KeepItem)
    IN SliceTo([i \in 1 .. Len(kept) |-> GoogleResult(kept[i])], limit)))

\* results.filter(r => !seen.has(r.url) && seen.add(r.url))
RECURSIVE DedupByUrl(_, _)
DedupByUrl(results, seen) ==
  IF Len(results) = 0
    THEN <<>>
    ELSE IF Head(results).url \in seen
      THEN DedupByUrl(Tail(results), seen)
      ELSE <<Head(results)>> \o DedupByUrl(Tail(results), seen \cup {Head(results).url})

IdleSrch ==
  [pc |-> "idle", fn |-> None, threw |-> FALSE, result |-> <<>>,
   requests |-> 0, serper |-> 0,
   wiki |-> [pc |-> "idle", langs |-> <<>>, article |-> NoResponse,
             second |-> NoResponse, search |-> NoResponse,
             info |-> NoResponse, results |-> <<>>],
   google |-> [pc |-> "idle", response |-> NoResponse, results |-> <<>>]]

SearchFunctions == {"searchWikimedia", "searchGoogle", "searchBoth"}

\* the input handler of #ai_candidates: parseInt(this.value) || 4
CandidatesInput(typed) == IF typed = 0 THEN 4 ELSE typed

\* numbers typed into #ai_candidates (0 also stands for a text that is no
\* number)
TypedCandidates == {0 - 1, 0, 1, 2}

\* a strategy is called: searchWikimedia issues the article request,
\* searchGoogle returns at once without a credential, else issues its request
SrchCall(fn) ==
  /\ srch.pc = "idle"
  /\ LET w == fn \in {"searchWikimedia", "searchBoth"}
         g == fn \in {"searchGoogle", "searchBoth"}
         asks == g /\ settings.serper_api_key
     IN srch' = [srch EXCEPT
                   !.pc = "waiting", !.fn = fn,
                   !.wiki.pc = IF w THEN "article" ELSE "unused",
                   !.wiki.langs = IF w THEN <<"en">> ELSE <<>>,
                   !.google.pc = IF ~g THEN "unused" ELSE IF asks THEN "fetch" ELSE "done",
                   !.requests = @ + (IF w THEN 1 ELSE 0) + (IF asks THEN 1 ELSE 0),
                   !.serper = @ + (IF asks THEN 1 ELSE 0)]
  /\ UNCHANGED <<settings, chat, dom, run, restore, both, sel, agg>>

\* the end of searchWikimedia: de-duplication and slice
WikiEnd(w, results) ==
  [w EXCEPT !.pc = "done",
            !.results = SliceTo(DedupByUrl(results, {}), settings.candidates_per_source)]

\* a sub-request whose error left its function: searchWikimedia rejects
WikiRejects(w) == [w EXCEPT !.pc = "rejected"]

\* the variant of searchWikimedia with two languages: the language of the
\* query first (zh for a query with CJK characters), the other second
SrchCallWithLanguages(hasCJK) ==
  /\ srch.pc = "idle"
  /\ srch' = [srch EXCEPT
                !.pc = "waiting", !.fn = "searchWikimedia",
                !.wiki.pc = "article",
                !.wiki.langs = IF hasCJK THEN <<"zh", "en">> ELSE <<"en", "zh">>,
                !.google.pc = "unused",
                !.requests = @ + 1]
  /\ UNCHANGED <<settings, chat, dom, run, restore, both, sel, agg>>

\* if (results.length < 2)
MinArticleResults == 2

\* if (results.length < limit)
CommonsNeeded(limit, length) == length < limit

\* after the article searches: Commons is asked when they gave fewer than
\* limit results, else searchWikimedia ends
AfterArticles(s, w) ==
  IF CommonsNeeded(settings.candidates_per_source, Len(w.results))
    THEN [s EXCEPT !.wiki = [w EXCEPT !.pc = "commons"], !.requests = @ + 1]
    ELSE [s EXCEPT !.wiki = WikiEnd(w, w.results)]

\* the variant with two languages retries when the first gave fewer than 2
SecondNeeded(langs, length) == Len(langs) = 2 /\ length < MinArticleResults

\* the first searchWikipediaArticle settles
SrchArticleSettles(resp) ==
  /\ srch.wiki.pc = "article"
  /\ LET out == Caught(TryBody(resp, resp.list))
         w == [srch.wiki EXCEPT !.article = resp, !.results = out.results]
     IN srch' = IF out.threw
                  THEN [srch EXCEPT !.wiki = WikiRejects(w)]
                  ELSE IF SecondNeeded(w.langs, Len(w.results))
                    THEN [srch EXCEPT !.wiki = [w EXCEPT !.pc = "second"],
                                      !.requests = @ + 1]
                    ELSE AfterArticles(srch, w)
  /\ UNCHANGED <<settings, chat, dom, run, restore, both, sel, agg>>

\* the searchWikipediaArticle of the second language settles:
\* results.push(...await searchWikipediaArticle(query, second))
SrchSecondSettles(resp) ==
  /\ srch.wiki.pc = "second"
  /\ LET out == Caught(TryBody(resp, resp.list))
         w == [srch.wiki EXCEPT !.second = resp, !.results = @ \o out.results]
     IN srch' = IF out.threw
                  THEN [srch EXCEPT !.wiki = WikiRejects(w)]
                  ELSE AfterArticles(srch, w)
  /\ UNCHANGED <<settings, chat, dom, run, restore, both, sel, agg>>

\* the file search of searchWikimediaCommons settles: without a file the
\* function returns [], else it asks for the image information
SrchCommonsSearchSettles(resp) ==
  /\ srch.wiki.pc = "commons"
  /\ LET out == Caught(TryBody(resp, <<>>))
         w == [srch.wiki EXCEPT !.search = resp]
     IN srch' = IF out.threw
                  THEN [srch EXCEPT !.wiki = WikiRejects(w)]
                  ELSE IF resp.kind = "ok"
                    THEN [srch EXCEPT !.wiki = [w EXCEPT !.pc = "info"],
                                      !.requests = @ + 1]
                    ELSE [srch EXCEPT !.wiki = WikiEnd(w, w.results)]
  /\ UNCHANGED <<settings, chat, dom, run, restore, both, sel, agg>>

\* the image information request settles: results.push(...commonsResults)
SrchCommonsInfoSettles(resp) ==
  /\ srch.wiki.pc = "info"
  /\ LET out == Caught(TryBody(resp, resp.list))
         w == [srch.wiki EXCEPT !.info = resp]
     IN srch' = IF out.threw
                  THEN [srch EXCEPT !.wiki = WikiRejects(w)]
                  ELSE [srch EXCEPT !.wiki = WikiEnd(w, w.results \o out.results)]
  /\ UNCHANGED <<settings, chat, dom, run, restore, both, sel, agg>>

\* the request of searchGoogle settles
SrchGoogleSettles(resp) ==
  /\ srch.google.pc = "fetch"
  /\ LET out == SearchGoogleSettled(resp, settings.candidates_per_source)
     IN srch' = [srch EXCEPT !.google = [pc |-> IF out.threw THEN "rejected" ELSE "done",
                                         response |-> resp, results |-> out.results]]
  /\ UNCHANGED <<settings, chat, dom, run, restore, both, sel, agg>>

\* the called function returns: a strategy its own list, searchBoth the
\* merge once Promise.all settled; a rejection of a strategy is passed on
SrchReturn ==
  /\ srch.pc = "waiting"
  /\ srch.wiki.pc \in {"unused", "done", "rejected"}
  /\ srch.google.pc \in {"unused", "done", "rejected"}
  /\ srch' = IF "rejected" \in {srch.wiki.pc, srch.google.pc}
               THEN [srch EXCEPT !.pc = "done", !.threw = TRUE]
               ELSE [srch EXCEPT !.pc = "done",
                       !.result = CASE srch.fn = "searchWikimedia" -> srch.wiki.results
                                    [] srch.fn = "searchGoogle" -> srch.google.results
                                    [] OTHER -> SearchBothMerge(srch.wiki.results,
                                                                srch.google.results)]
  /\ UNCHANGED <<settings, chat, dom, run, restore, both, sel, agg>>

----------------------------------------------------------------------------
(* Specifications *)

\* the settings as loaded: the switches are off, the keys may be set
InitSettings ==
  {[DefaultSettings EXCEPT !.ai_ok = a, !.serper_api_key = TRUE] : a \in BOOLEAN}

\* the verdicts the pipeline is run against: a transport error, an index in
\* or out of range, a negative index
PipelineVerdicts ==
  {[kind |-> "error", form |-> "absent", val |-> 0],
   [kind |-> "json", form |-> "negative", val |-> 1]}
  \cup {[kind |-> "json", form |-> "digits", val |-> v] : v \in 0 .. 2}

\* a chat just loaded: nothing in flight, no placeholder, no wrapper
InitPipeline ==
  /\ settings \in InitSettings
  /\ chat \in [MsgIds -> MsgKinds]
  /\ dom \in [MsgIds -> [el : BOOLEAN, loading : {0}, imgs : {<<>>}]]
  /\ run = [r \in Runs |-> IdleRun]
  /\ restore = [k \in Restores |-> IdleRestore]

FixedPipeline ==
  /\ settings = DefaultSettings
  /\ chat = [m \in MsgIds |-> [is_user |-> FALSE, len |-> DefaultMinLength,
                              illust |-> Null, chatId |-> 0]]
  /\ dom = [m \in MsgIds |-> [el |-> TRUE, loading |-> 0, imgs |-> <<>>]]
  /\ run = [r \in Runs |-> IdleRun]
  /\ restore = [k \in Restores |-> IdleRestore]

Init ==
  /\ InitPipeline
  /\ both = IdleBoth
  /\ sel = IdleSel
  /\ agg = IdleAgg
  /\ srch = IdleSrch

Next ==
  \/ \E r \in Runs, m \in 0 .. NumMsgs : Invoke(r, m)
  \/ \E r \in Runs, reply \in ExtractReplies(MaxQueriesReturned) : ExtractReturns(r, reply)
  \/ \E r \in Runs, w \in WikiReplies(MaxResults), g \in GoogleReplies(MaxResults) :
       SearchReturns(r, w, g)
  \/ \E r \in Runs, ok \in SUBSET (1 .. 2), reply \in PipelineVerdicts :
       SelectReturns(r, ok, reply)
  \/ \E r \in Runs, confirmed \in BOOLEAN : ConfirmDecides(r, confirmed)
  \/ \E r \in Runs, saved \in BOOLEAN : SaveReturns(r, saved)
  \/ \E b \in BOOLEAN : SetEnabled(b)
  \/ \E b \in BOOLEAN : SetAutoMode(b)
  \/ \E k \in Restores : RestoreStart(k)
  \/ \E k \in Restores : RestoreWake(k)
  \/ \E k \in Restores, saved \in BOOLEAN : RestoreSaveReturns(k, saved)

Spec == Init /\ [][Next]_vars

\* searchBoth on its own
InitMerge ==
  /\ FixedPipeline
  /\ both = [IdleBoth EXCEPT !.pc = "waiting"]
  /\ sel = IdleSel
  /\ agg = IdleAgg
  /\ srch = IdleSrch

NextMerge ==
  \/ \E w \in MergeWikiLists(MaxSide) : BothWikiSettles(w)
  \/ \E g \in MergeGoogleLists(MaxSide) : BothGoogleSettles(g)
  \/ BothJoin

SpecMerge == InitMerge /\ [][NextMerge]_vars

\* selectBestImage on its own
InitSelect ==
  /\ FixedPipeline
  /\ both = IdleBoth
  /\ sel \in {[IdleSel EXCEPT !.pc = "called", !.candidates = p, !.ai = a] :
                p \in Pools(MaxPool), a \in BOOLEAN}
  /\ agg = IdleAgg
  /\ srch = IdleSrch

NextSelect ==
  \/ SelStart
  \/ \E i \in 1 .. ThumbCap, fetched \in BOOLEAN : SelFetchSettles(i, fetched)
  \/ SelJoin
  \/ \E reply \in ModelReplies(MaxVerdict) : SelModelSettles(reply)

SpecSelect == InitSelect /\ [][NextSelect]_vars

\* the query loop on its own
InitAgg ==
  /\ settings \in AggSettings
  /\ chat = [m \in MsgIds |-> [is_user |-> FALSE, len |-> DefaultMinLength,
                              illust |-> Null, chatId |-> 0]]
  /\ dom = [m \in MsgIds |-> [el |-> TRUE, loading |-> 0, imgs |-> <<>>]]
  /\ run = [r \in Runs |-> IdleRun]
  /\ restore = [k \in Restores |-> IdleRestore]
  /\ both = IdleBoth
  /\ sel = IdleSel
  /\ agg \in {[IdleAgg EXCEPT !.pc = "called",
                               !.analysis = ExtractKeywords([kind |-> "json", queries |-> q])] :
               q \in AggQueryLists(MaxAggQueries)}
  /\ srch = IdleSrch

NextAgg ==
  \/ AggStart
  \/ \E w \in WikiReplies(MaxResults) : AggWikiReturns(w)
  \/ \E g \in GoogleReplies(MaxResults) : AggGoogleReturns(g)
  \/ \E w \in WikiReplies(MaxResults), g \in GoogleReplies(MaxResults) :
       AggBothReturns(w, g)

SpecAgg == InitAgg /\ [][NextAgg]_vars

\* one pipeline run with up to MaxAggQueries queries, a restore pass and a
\* switch of the chat
SoloRuns == {1}

InitSolo ==
  /\ settings \in {[DefaultSettings EXCEPT !.enabled = TRUE, !.ai_ok = TRUE,
                                            !.serper_api_key = TRUE, !.auto_mode = a] :
                     a \in BOOLEAN}
  /\ chat \in [MsgIds -> {k \in MsgKinds : ~k.is_user /\ k.len = DefaultMinLength}]
  /\ dom = [m \in MsgIds |-> [el |-> TRUE, loading |-> 0, imgs |-> <<>>]]
  /\ run = [r \in Runs |-> IdleRun]
  /\ restore = [k \in Restores |-> IdleRestore]
  /\ both = IdleBoth
  /\ sel = IdleSel
  /\ agg = IdleAgg
  /\ srch = IdleSrch

SoloExtractReturns == \E r \in SoloRuns, reply \in ExtractReplies(MaxAggQueries) : ExtractReturns(r, reply)
SoloSearchReturns ==
  \E r \in SoloRuns, w \in WikiReplies(MaxResults), g \in GoogleReplies(MaxResults) :
    SearchReturns(r, w, g)
SoloSelectReturns ==
  \E r \in SoloRuns, ok \in SUBSET (1 .. 2), reply \in PipelineVerdicts :
    SelectReturns(r, ok, reply)
SoloSaveReturns == \E r \in SoloRuns, saved \in BOOLEAN : SaveReturns(r, saved)

NextSolo ==
  \/ \E r \in SoloRuns, m \in MsgIds : Invoke(r, m)
  \/ SoloExtractReturns
  \/ SoloSearchReturns
  \/ SoloSelectReturns
  \/ \E r \in SoloRuns, confirmed \in BOOLEAN : ConfirmDecides(r, confirmed)
  \/ SoloSaveReturns
  \/ \E c \in [MsgIds -> SwitchKinds] : ChatSwitch(c)
  \/ \E k \in Restores : RestoreStart(k)
  \/ \E k \in Restores : RestoreWake(k)
  \/ \E k \in Restores, saved \in BOOLEAN : RestoreSaveReturns(k, saved)

SpecSolo == InitSolo /\ [][NextSolo]_vars

\* every network call and every chat save eventually returns or fails; the
\* approver is not bound to decide
SpecSoloFair ==
  /\ SpecSolo
  /\ WF_vars(SoloExtractReturns)
  /\ WF_vars(SoloSearchReturns)
  /\ WF_vars(SoloSelectReturns)
  /\ WF_vars(SoloSaveReturns)

\* the strategies on their own, for every credential and limit
InitSearch ==
  /\ settings \in {[DefaultSettings EXCEPT !.serper_api_key = k,
                                           !.candidates_per_source = CandidatesInput(c)] :
                     k \in BOOLEAN, c \in TypedCandidates}
  /\ chat = [m \in MsgIds |-> [is_user |-> FALSE, len |-> DefaultMinLength,
                              illust |-> Null, chatId |-> 0]]
  /\ dom = [m \in MsgIds |-> [el |-> TRUE, loading |-> 0, imgs |-> <<>>]]
  /\ run = [r \in Runs |-> IdleRun]
  /\ restore = [k \in Restores |-> IdleRestore]
  /\ both = IdleBoth
  /\ sel = IdleSel
  /\ agg = IdleAgg
  /\ srch = IdleSrch

NextSearch ==
  \/ \E fn \in SearchFunctions : SrchCall(fn)
  \/ \E hasCJK \in BOOLEAN : SrchCallWithLanguages(hasCJK)
  \/ \E lang \in {"en", "zh"} : \E resp \in ArticleResponses(lang, MaxWikiList) :
       /\ srch.wiki.langs # <<>>
       /\ lang = Head(srch.wiki.langs)
       /\ SrchArticleSettles(resp)
  \/ \E lang \in {"en", "zh"} : \E resp \in ArticleResponses(lang, MaxWikiList) :
       /\ Len(srch.wiki.langs) = 2
       /\ lang = srch.wiki.langs[2]
       /\ SrchSecondSettles(resp)
  \/ \E resp \in CommonsSearchResponses : SrchCommonsSearchSettles(resp)
  \/ \E resp \in CommonsInfoResponses(MaxWikiList) : SrchCommonsInfoSettles(resp)
  \/ \E resp \in GoogleResponses(MaxItems) : SrchGoogleSettles(resp)
  \/ SrchReturn

SpecSearch == InitSearch /\ [][NextSearch]_vars

----------------------------------------------------------------------------
(* Properties *)

MinLen(s) == s.min_message_length

\* run r leaves "idle" in this step: onMessageReceived(run'[r].mid) is called
Invoked(r) == run[r].pc = "idle" /\ run'[r].pc # "idle"

\* the run returned at the guard: no call, no indicator, no write
ReturnedAtGuard(r) ==
  /\ run'[r].pc = "done"
  /\ run'[r].outcome \in GuardReturns
  /\ ~run'[r].called /\ ~run'[r].shown /\ ~run'[r].wrote
  /\ chat' = chat
  /\ dom' = dom

\* a run that returned takes no further step
FinishedStaysFinished == \A r \in Runs : run[r].pc = "done" => run'[r] = run[r]

InFlight(r) == run[r].pc \in {"extract", "search", "select", "confirm", "save"}

\* C1: onMessageReceived on a message that already carries an annotation
\* issues no call, shows no indicator and leaves the annotation (and the
\* document) as they are; the run never acts afterwards.
C1_AnnotatedMessageIsNoOp ==
  [][/\ \A r \in Runs :
          (/\ Invoked(r)
           /\ run'[r].mid \in MsgIds
           /\ chat[run'[r].mid].illust # Null) => ReturnedAtGuard(r)
     /\ FinishedStaysFinished]_vars

\* C1 witness: a message annotated by one run, and a later run on the same
\* (enabled, assistant, long enough) message that returned at the guard
C1_Witness ==
  \E r1, r2 \in Runs :
    /\ run[r1].outcome = "committed"
    /\ run[r2].outcome = "annotated"
    /\ run[r2].mid = run[r1].mid
    /\ chat[run[r2].mid].illust # Null

\* C2: at most one pipeline run is in flight per message id.
C2_OneRunInFlightPerMessage ==
  \A r1, r2 \in Runs :
    (r1 # r2 /\ InFlight(r1) /\ InFlight(r2)) => run[r1].mid # run[r2].mid

\* C3: an annotation, once present, is never changed, and no pipeline run
\* commits to a message that already has one (at most one commit per id).
C3_AnnotationWrittenOnce ==
  [][\A m \in MsgIds :
       chat[m].illust # Null =>
         /\ chat'[m].illust = chat[m].illust
         /\ \A r \in Runs : (run'[r].wrote /\ ~run[r].wrote) => run'[r].mid # m]_vars

\* C4: at the step that ends a run which showed the indicator, no loading
\* indicator of its message id is left displayed.
C4_NoIndicatorAfterRunEnds ==
  [][\A r \in Runs :
       (run[r].pc # "done" /\ run'[r].pc = "done" /\ run'[r].shown) =>
         dom'[run'[r].mid].loading = 0]_vars

\* C5: a run that ended Failed wrote no annotation.
C5_FailedRunWroteNothing ==
  \A r \in Runs : run[r].outcome = "failed" => ~run[r].wrote

\* what C6 asks of the invocation
Qualifies(m) ==
  /\ settings.enabled
  /\ m \in MsgIds
  /\ ~chat[m].is_user
  /\ chat[m].len >= MinLen(settings)

\* C6: an invocation made while the feature is off, or for a missing or
\* end-user message, or for a text shorter than min_message_length, returns
\* at the guard: no call, no indicator, no annotation, then or later.
C6_GuardBeforeAnyEffect ==
  [][/\ \A r \in Runs :
          (Invoked(r) /\ ~Qualifies(run'[r].mid)) => ReturnedAtGuard(r)
     /\ FinishedStaysFinished]_vars

\* C6 witness: an assistant message of length 50 under min_message_length 80,
\* feature on, whose run returned at the guard
C6_Witness ==
  \E r \in Runs :
    /\ run[r].outcome = "short"
    /\ ~run[r].called /\ ~run[r].shown /\ ~run[r].wrote
    /\ chat[run[r].mid].len = 50
    /\ chat[run[r].mid].illust = Null
    /\ MinLen(settings) = 80

\* C7: the pool handed to selectBestImage holds no two candidates of one url.
C7_PoolHasDistinctUrls ==
  \A r \in Runs :
    run[r].pc = "select" =>
      \A i, j \in 1 .. Len(run[r].pool) :
        i # j => run[r].pool[i].url # run[r].pool[j].url

CountOf(seq, src) == Cardinality({i \in 1 .. Len(seq) : seq[i].source = src})
IsWiki(c) == c.source = "wiki"
IsGoogle(c) == c.source = "google"

\* the merged list has length m+n and keeps each source's order
MergeKeepsBoth ==
  /\ Len(both.merged) = Len(both.wiki.results) + Len(both.google.results)
  /\ SelectSeq(both.merged, IsWiki) = both.wiki.results
  /\ SelectSeq(both.merged, IsGoogle) = both.google.results

\* C8 as stated: for every k the first 2k elements of the merge hold exactly
\* min(k,m) elements of A and min(k,n) elements of B.
C8_First2kElements ==
  both.pc = "done" =>
    LET m == Len(both.wiki.results)
        n == Len(both.google.results)
    IN /\ MergeKeepsBoth
       /\ \A k \in 0 .. (m + n) :
            /\ CountOf(Take(both.merged, 2 * k), "wiki") = Min(k, m)
            /\ CountOf(Take(both.merged, 2 * k), "google") = Min(k, n)

\* C8 amended: for every k the first min(k,m)+min(k,n) elements of the merge
\* hold exactly min(k,m) elements of A and min(k,n) elements of B; the merge
\* has length m+n and keeps each source's order.
C8_FirstKRounds ==
  both.pc = "done" =>
    LET m == Len(both.wiki.results)
        n == Len(both.google.results)
    IN /\ MergeKeepsBoth
       /\ \A k \in 0 .. (m + n) :
            /\ CountOf(Take(both.merged, Min(k, m) + Min(k, n)), "wiki") = Min(k, m)
            /\ CountOf(Take(both.merged, Min(k, m) + Min(k, n)), "google") = Min(k, n)

\* C8 witness: a merge of three encyclopedic and one web result
C8_Witness ==
  /\ both.pc = "done"
  /\ Len(both.wiki.results) = 3
  /\ Len(both.google.results) = 1
  /\ Len(both.merged) = 4

\* C9: on an empty pool selectBestImage returns null, on a pool of one it
\* returns that candidate; in both cases no thumbnail fetch, no model call.
C9_DegeneratePools ==
  (sel.pc = "done" /\ Len(sel.candidates) <= 1) =>
    /\ sel.fetches = 0
    /\ sel.calls = 0
    /\ sel.result = IF Len(sel.candidates) = 0 THEN Null ELSE sel.candidates[1]

\* C9 witness: a pool of one returned as the result
C9_Witness ==
  /\ sel.pc = "done"
  /\ Len(sel.candidates) = 1
  /\ sel.result = sel.candidates[1]

\* the verdict's index is negative, not a number, or not below the pool size
IndexOutOfRange(reply, n) ==
  \/ reply.form = "negative"
  \/ reply.form = "quoted"
  \/ reply.form = "digits" /\ reply.val >= n

AllFetchesFailed ==
  /\ DOMAIN sel.parts = ThumbIndexes(sel.candidates)
  /\ \A i \in DOMAIN sel.parts : sel.parts[i] = "null"
SomeFetchSucceeded == \E i \in DOMAIN sel.parts : sel.parts[i] = "ok"

\* C11: for a pool of two or more candidates whose thumbnail fetches (of the
\* first 8) all failed, selectBestImage returns the first candidate of the
\* pool and issues no model call; it returns, it does not throw.
C11_AllFetchesFailedReturnsFirst ==
  /\ (sel.pc = "done" /\ Len(sel.candidates) >= 2 /\ AllFetchesFailed) =>
       (sel.result = sel.candidates[1] /\ sel.calls = 0)
  /\ (sel.pc = "model" /\ Len(sel.candidates) >= 2) => SomeFetchSucceeded

\* C11 witness: a pool of nine, AI configured, all eight fetches failed
C11_Witness ==
  /\ sel.pc = "done"
  /\ Len(sel.candidates) = 9
  /\ sel.ai
  /\ AllFetchesFailed
  /\ Cardinality(DOMAIN sel.parts) = ThumbCap
  /\ sel.result = sel.candidates[1]
  /\ sel.calls = 0

\* C12: when at least one thumbnail was fetched and the multimodal call then
\* fails (it throws on a transport error, on a non-success status, or because
\* AI is not configured), selectBestImage returns the first candidate of the
\* pool, not null.
C12_ModelFailureReturnsFirst ==
  (/\ sel.pc = "done"
   /\ Len(sel.candidates) >= 2
   /\ SomeFetchSucceeded
   /\ (sel.reply.kind = "error" \/ ~sel.ai)) =>
     (sel.result = sel.candidates[1] /\ sel.result # Null)

\* C12 witness: a fetched thumbnail, the model call made and failed
C12_Witness ==
  /\ sel.pc = "done"
  /\ Len(sel.candidates) >= 2
  /\ SomeFetchSucceeded
  /\ sel.ai
  /\ sel.calls = 1
  /\ sel.reply.kind = "error"
  /\ sel.result = sel.candidates[1]

\* C13: extractKeywords never throws to onMessageReceived: whatever the
\* completion call does, a run that ends while at the extraction stage ends
\* at the guard or Skipped (empty query list), never Failed.
C13_ExtractNeverThrows ==
  [][\A r \in Runs :
       (run[r].pc \in {"idle", "extract"} /\ run'[r].pc = "done") =>
         run'[r].outcome \in GuardReturns \cup {"skipped"}]_vars

Asked(h, strategy) == \E i \in 1 .. Len(h.asked) : h.asked[i] = strategy

\* C14: for a query whose effective source is 'wiki', searchGoogle is called
\* if and only if searchWikimedia returned no candidate and serper_api_key
\* is set; the query's results are then those of searchGoogle, so the pool
\* is not empty when searchGoogle returned results.
C14_FallbackToWeb ==
  /\ \A i \in 1 .. Len(agg.hist) :
       LET h == agg.hist[i]
       IN h.effective = "wiki" =>
            /\ Asked(h, "searchGoogle") <=> (Len(h.wiki) = 0 /\ settings.serper_api_key)
            /\ Asked(h, "searchGoogle") =>
                 (h.results = h.google /\ (Len(h.google) > 0 => Len(agg.pool) > 0))
            /\ ~Asked(h, "searchGoogle") => h.results = h.wiki
  /\ agg.pc = "fallback" =>
       (agg.effective = "wiki" /\ Len(agg.wiki) = 0 /\ settings.serper_api_key)

\* C14 witness: a 'wiki' query without results, a credential, and the
\* results of searchGoogle in the pool
C14_Witness ==
  \E i \in 1 .. Len(agg.hist) :
    /\ agg.hist[i].effective = "wiki"
    /\ Len(agg.hist[i].wiki) = 0
    /\ settings.serper_api_key
    /\ agg.hist[i].asked = <<"searchWikimedia", "searchGoogle">>
    /\ Len(agg.hist[i].results) > 0
    /\ Len(agg.pool) > 0

\* the message-level hint handed to the loop: under 'smart' the hint of the
\* analysis (that of its first query, else 'both'), otherwise the preference
MessageLevelHint ==
  IF settings.search_preference = "smart"
    THEN (IF agg.analysis.queries[1].source # None
            THEN agg.analysis.queries[1].source
            ELSE "both")
    ELSE settings.search_preference

\* C17: the effective source of a query is its own hint when it has one,
\* otherwise the message-level hint; the switch calls searchWikimedia for
\* 'wiki', searchGoogle for 'google', and searchBoth for 'both' and for any
\* other value.
C17_EffectiveSource ==
  \A i \in 1 .. Len(agg.hist) :
    LET h == agg.hist[i]
        e == IF h.hint # None THEN h.hint ELSE MessageLevelHint
    IN /\ h.effective = e
       /\ e = "wiki" => Head(h.asked) = "searchWikimedia"
       /\ e = "google" => h.asked = <<"searchGoogle">>
       /\ e \notin {"wiki", "google"} => h.asked = <<"searchBoth">>

\* C17 witness: a second query without a hint searched with the hint of the
\* message, after a first query searched with its own; and a query with an
\* unknown hint searched with searchBoth
C17_Witness ==
  /\ Len(agg.hist) = 2
  /\ settings.search_preference = "smart"
  /\ agg.hist[1].hint = "google"
  /\ agg.hist[1].asked = <<"searchGoogle">>
  /\ agg.hist[2].hint = None
  /\ agg.hist[2].effective = "google"
  /\ agg.hist[2].asked = <<"searchGoogle">>

\* C18: with search_preference 'wiki' or 'google' every query is searched
\* with that strategy whatever hints the reply carries; under 'google'
\* searchWikimedia is never called, alone or inside searchBoth.
C18_PreferenceOverridesHints ==
  \A i \in 1 .. Len(agg.hist) :
    LET h == agg.hist[i]
    IN /\ settings.search_preference = "wiki" => Head(h.asked) = "searchWikimedia"
       /\ settings.search_preference = "google" => h.asked = <<"searchGoogle">>

\* the step removes the run's indicator from message m and nothing else of
\* the document: one placeholder less, none left when no other run is in
\* flight for m, the images as they were
IndicatorCleared(r, m) ==
  /\ dom'[m].loading = Max(dom[m].loading - 1, 0)
  /\ dom'[m].imgs = dom[m].imgs
  /\ \A n \in MsgIds \ {m} : dom'[n] = dom[n]
  /\ (\A q \in Runs \ {r} : ~(InFlight(q) /\ run[q].mid = m)) => dom'[m].loading = 0

\* C15: a run ends Skipped straight from the extraction (no query: no search
\* ran), from the search (empty pool: the selector did not run) or from the
\* selection (null); it never reached the approval prompt, wrote no
\* annotation, and its indicator is removed. An empty pool and a null
\* selection always end the run Skipped.
C15_SkippedRuns ==
  /\ [][\A r \in Runs :
          (run[r].pc # "done" /\ run'[r].outcome = "skipped") =>
            /\ run[r].pc \in {"extract", "search", "select"}
            /\ ~run'[r].wrote
            /\ chat' = chat
            /\ IndicatorCleared(r, run[r].mid)]_vars
  /\ [](\A r \in Runs :
          /\ run[r].pc = "search" =>
               AfterSearch(run[r], <<>>, chat, dom, settings).run.outcome = "skipped"
          /\ run[r].pc = "select" =>
               AfterSelect(run[r], Null, chat, dom, settings).run.outcome = "skipped")

\* C15 witness: a run that showed its indicator and ended Skipped, the message
\* left without annotation, image and indicator
C15_Witness ==
  \E r \in Runs :
    /\ run[r].outcome = "skipped"
    /\ run[r].shown
    /\ run[r].called
    /\ chat[run[r].mid].illust = Null
    /\ dom[run[r].mid].loading = 0
    /\ dom[run[r].mid].imgs = <<>>

\* C16: the approval prompt is reached only with auto_mode off and with the
\* run's indicator removed first; an annotation is written either at the
\* approver's confirmation or, with auto_mode on, straight after the
\* selection without a prompt; a rejection writes nothing, changes nothing
\* and ends the run for good.
C16_ConfirmMode ==
  [][/\ \A r \in Runs :
          /\ (run[r].pc # "confirm" /\ run'[r].pc = "confirm") =>
               /\ ~settings.auto_mode
               /\ ~run'[r].wrote
               /\ chat' = chat
               /\ IndicatorCleared(r, run[r].mid)
          /\ (~run[r].wrote /\ run'[r].wrote) =>
               \/ run[r].pc = "confirm"
               \/ settings.auto_mode /\ run[r].pc \in {"search", "select"}
          /\ (run[r].pc = "confirm" /\ run'[r].pc = "done" /\ ~run'[r].wrote) =>
               /\ run'[r].outcome \in {"declined", "unrendered"}
               /\ chat' = chat
               /\ dom' = dom
          /\ (settings.auto_mode /\ run[r].pc \in {"search", "select"}) =>
               run'[r].pc # "confirm"
     /\ FinishedStaysFinished]_vars

\* C16 witness: auto_mode off, a candidate presented and rejected: no
\* annotation, no image, no indicator
C16_Witness ==
  \E r \in Runs :
    /\ run[r].outcome = "declined"
    /\ ~run[r].wrote
    /\ run[r].shown
    /\ ~settings.auto_mode
    /\ chat[run[r].mid].illust = Null
    /\ dom[run[r].mid].imgs = <<>>
    /\ dom[run[r].mid].loading = 0

\* what C19 asks of a message for the restore pass to render it
RestoreRenders(m) ==
  /\ chat[m].illust # Null
  /\ dom[m].el
  /\ Len(dom[m].imgs) = 0

\* C19: every step of a restore pass goes on from where it stood to the
\* lowest later message that has an annotation, an element and no image,
\* and renders it with insertImageToMessage, leaving all others untouched;
\* with no such message left the pass ends and changes nothing.
C19_RestoreVisitsInOrder ==
  [][\A k \in Restores :
       (restore[k].pc \in {"delay", "save"} /\ restore'[k] # restore[k]) =>
         LET from == IF restore[k].pc = "delay" THEN 0 ELSE restore[k].i + 1
             Q == {m \in from .. (NumMsgs - 1) : RestoreRenders(m)}
         IN IF Q = {}
              THEN restore'[k].pc = "done" /\ chat' = chat /\ dom' = dom
              ELSE LET j == CHOOSE m \in Q : \A n \in Q : m <= n
                   IN /\ restore'[k] = [pc |-> "save", i |-> j]
                      /\ dom' = [dom EXCEPT ![j].imgs = <<chat[j].illust>>]
                      /\ chat' = chat]_vars

\* C20: every message has at most one illustration element, and it shows
\* the annotation of the message.
C20_OneIllustrationPerMessage ==
  \A m \in MsgIds :
    /\ Len(dom[m].imgs) <= 1
    /\ Len(dom[m].imgs) = 1 => dom[m].imgs[1] = chat[m].illust

\* the pool is the concatenation of the results of the queries searched so
\* far, each tagged with its query
RECURSIVE PoolOf(_)
PoolOf(hist) ==
  IF Len(hist) = 0
    THEN <<>>
    ELSE PoolOf(SubSeq(hist, 1, Len(hist) - 1))
         \o Tagged(hist[Len(hist)].results, hist[Len(hist)].query)

\* C21: at most max_queries queries are searched, they are the first
\* max_queries queries of the reply in its order, and the pool holds their
\* results in that order.
C21_FirstMaxQueriesInOrder ==
  /\ Len(agg.hist) + (IF agg.item = NoItem THEN 0 ELSE 1) <= Max(settings.max_queries, 0)
  /\ \A i \in 1 .. Len(agg.hist) : agg.hist[i].query = agg.analysis.queries[i].query
  /\ agg.pool = PoolOf(agg.hist)
  /\ agg.pc = "done" =>
       Len(agg.hist) = Min(Len(agg.analysis.queries), Max(settings.max_queries, 0))

\* the pool positions of the prefix whose thumbnail fetch succeeded
FetchedPositions ==
  {i \in ThumbIndexes(sel.candidates) : i \in DOMAIN sel.parts /\ sel.parts[i] = "ok"}

\* C22: the images handed to callAIWithImages are exactly those of the first
\* 8 pool positions whose fetch succeeded, in increasing pool position,
\* whatever the order in which the fetches settled; a failed fetch takes out
\* its own candidate only.
C22_SubmittedImages ==
  sel.calls > 0 =>
    /\ {sel.submitted[j] : j \in 1 .. Len(sel.submitted)} = FetchedPositions
    /\ \A j, k \in 1 .. Len(sel.submitted) : j < k => sel.submitted[j] < sel.submitted[k]

\* C22 witness: a pool of nine, the fetches of positions 1 and 3 failed, those
\* of 2 and 8 succeeded among others, the model was called
C22_Witness ==
  /\ sel.calls = 1
  /\ Len(sel.candidates) = 9
  /\ sel.parts[1] = "null" /\ sel.parts[3] = "null"
  /\ sel.parts[2] = "ok" /\ sel.parts[8] = "ok"
  /\ sel.submitted[1] = 2
  /\ sel.submitted[Len(sel.submitted)] = 8

\* C23: a candidate returned on the model's verdict is one whose image was
\* handed to the model.
C23_VerdictNamesSubmitted ==
  (/\ sel.pc = "done"
   /\ sel.calls > 0
   /\ sel.reply.kind # "error"
   /\ sel.result # Null) =>
     \E j \in 1 .. Len(sel.submitted) : sel.result = sel.candidates[sel.submitted[j]]

\* C24: a reply that is no complete JSON object but carries a "selected"
\* field with digits naming a pool position makes selectBestImage return
\* that candidate.
C24_TruncatedReplyRecovered ==
  (/\ sel.pc = "done"
   /\ sel.reply.kind \in {"nobrace", "badjson"}
   /\ sel.reply.form = "digits"
   /\ sel.reply.val < Len(sel.candidates)) =>
     sel.result = sel.candidates[sel.reply.val + 1]

\* C27: no step of a restore pass changes the annotation of any message:
\* none is created, none is altered.
C27_RestoreKeepsAnnotations ==
  [][\A k \in Restores : restore'[k] # restore[k] => chat' = chat]_vars

\* C27 witness: a finished restore pass that rendered a persisted annotation,
\* which is still the one loaded with the chat
C27_Witness ==
  \E k \in Restores, m \in MsgIds :
    /\ restore[k].pc = "done"
    /\ chat[m].illust = Persisted
    /\ dom[m].imgs = <<Persisted>>

\* C25: a run writes its annotation to a message of the transcript whose
\* message it analysed.
C25_CommitsToAnalysedMessage ==
  [][\A r \in Runs :
       (~run[r].wrote /\ run'[r].wrote) =>
         chat'[run[r].mid].chatId = run[r].chatId]_vars

\* C26: every search step appends to the pool the results tagged with the
\* text of the query searched; the candidate that leaves the selector is a
\* candidate of the pool; the annotation written has the url, thumbnail,
\* source, title and query of that candidate.
C26_AnnotationIsSelectedCandidate ==
  [][\A r \in Runs :
       /\ (run[r].pc = "search" /\ run'[r].pc \in {"search", "select"}) =>
            /\ Len(run'[r].pool) >= Len(run[r].pool)
            /\ SubSeq(run'[r].pool, 1, Len(run[r].pool)) = run[r].pool
            /\ \A i \in (Len(run[r].pool) + 1) .. Len(run'[r].pool) :
                 run'[r].pool[i].query = Head(run[r].queries).query
       /\ (run[r].pc = "search" /\ run'[r].best # Null) =>
            \/ Len(run[r].pool) = 1 /\ run'[r].best = run[r].pool[1]
            \/ Len(run[r].pool) = 0 /\ run'[r].best.query = Head(run[r].queries).query
       /\ (run[r].pc = "select" /\ run'[r].best # Null) =>
            \E i \in 1 .. Len(run[r].pool) : run'[r].best = run[r].pool[i]
       /\ (run[r].pc = "confirm" /\ run'[r].pc = "save") => run'[r].best = run[r].best
       /\ (~run[r].wrote /\ run'[r].wrote) =>
            LET a == chat'[run[r].mid].illust
                b == run'[r].best
            IN /\ b # Null
               /\ a.url = b.url /\ a.thumbnail = b.thumbnail
               /\ a.source = b.source /\ a.title = b.title
               /\ a.query = b.query]_vars

\* C26 witness: an annotation written from a candidate of the second query
C26_Witness ==
  \E r \in Runs :
    /\ run[r].pc = "save"
    /\ run[r].best.query = "q2"
    /\ chat[run[r].mid].illust =
         [url |-> "u2", thumbnail |-> "t2", title |-> "a2",
          source |-> run[r].best.source, query |-> "q2"]

\* the outcomes of a run that returned after passing the guard
TerminalOutcomes == {"committed", "skipped", "declined", "unrendered", "failed"}

\* C28: a run that is past the guard and not waiting for the approver
\* eventually returns annotated, skipped or failed, or, in confirm mode
\* only, reaches the approval prompt; after the approver's decision it is
\* again not waiting for the approver and so eventually returns.
C28_RunsTerminate ==
  \A r \in SoloRuns :
    (run[r].pc \in {"extract", "search", "select", "save"}) ~>
      \/ run[r].pc = "done" /\ run[r].outcome \in TerminalOutcomes
      \/ run[r].pc = "confirm" /\ ~settings.auto_mode

\* C28 witness: a run that was in progress and ended Annotated
C28_Witness ==
  \E r \in SoloRuns :
    /\ settings.auto_mode
    /\ run[r].pc = "done"
    /\ run[r].called
    /\ run[r].outcome = "committed"

\* what a sub-request delivered: its list, or nothing when it failed or was
\* not made
Delivered(resp) == IF resp.kind = "ok" THEN resp.list ELSE <<>>

\* C29: a strategy or searchBoth that returned did not throw; the list of
\* searchWikimedia is made of what the article request and the Commons
\* requests delivered, a failed one counting as empty; the list of
\* searchGoogle is empty when its request failed; searchBoth returns the
\* merge of the two lists.
C29_StrategiesNeverThrow ==
  srch.pc = "done" =>
    /\ ~srch.threw
    /\ srch.wiki.pc # "rejected" /\ srch.google.pc # "rejected"
    /\ srch.wiki.pc = "done" =>
         srch.wiki.results =
           SliceTo(DedupByUrl(Delivered(srch.wiki.article)
                                \o Delivered(srch.wiki.second)
                                \o (IF srch.wiki.search.kind = "ok"
                                      THEN Delivered(srch.wiki.info) ELSE <<>>), {}),
                   settings.candidates_per_source)
    /\ (srch.google.pc = "done" /\ srch.google.response.kind # "ok") =>
         srch.google.results = <<>>
    /\ srch.fn = "searchWikimedia" => srch.result = srch.wiki.results
    /\ srch.fn = "searchGoogle" => srch.result = srch.google.results
    /\ srch.fn = "searchBoth" =>
         srch.result = SearchBothMerge(srch.wiki.results, srch.google.results)

\* C29 witness: searchBoth returned the Commons results although the article
\* request and the web request failed
C29_Witness ==
  /\ srch.pc = "done"
  /\ srch.fn = "searchBoth"
  /\ srch.wiki.article.kind \in FailureKinds
  /\ srch.google.response.kind \in FailureKinds
  /\ srch.wiki.info.kind = "ok"
  /\ Len(srch.result) > 0
  /\ srch.result = srch.wiki.results

\* a text that holds an entry of the list, whatever its capitals
HoldsWatermarkEntry(t) == \E wd \in WATERMARK_DOMAINS : Substring(t.lower, wd)

\* the backend items whose domain holds no entry of the list, in backend order
RECURSIVE CleanItems(_)
CleanItems(items) ==
  IF Len(items) = 0
    THEN <<>>
    ELSE (IF HoldsWatermarkEntry(OrText(Head(items).source, Head(items).link))
            THEN <<>> ELSE <<Head(items)>>) \o CleanItems(Tail(items))

\* C30: without a credential searchGoogle makes no request and returns the
\* empty list; with one, its list has no item whose domain holds an entry of
\* the watermark list in any capitalisation, and is made of the first
\* candidates_per_source of the backend items that pass the filter, in
\* backend order.
C30_WebStrategyFiltersThenTruncates ==
  srch.google.pc = "done" =>
    /\ ~settings.serper_api_key => srch.serper = 0 /\ srch.google.results = <<>>
    /\ (settings.serper_api_key /\ srch.google.response.kind = "ok") =>
         LET clean == CleanItems(srch.google.response.list)
             n == Min(Len(clean), Max(settings.candidates_per_source, 0))
         IN /\ \A i \in 1 .. Len(srch.google.results) :
                 ~HoldsWatermarkEntry(srch.google.results[i].domain)
            /\ Len(srch.google.results) <= Max(settings.candidates_per_source, 0)
            /\ srch.google.results = [i \in 1 .. n |-> GoogleResult(clean[i])]

\* what the sub-requests of searchWikimedia delivered, in the order of the
\* requests: first article search, second article search, Commons
WikiDelivered ==
  Delivered(srch.wiki.article) \o Delivered(srch.wiki.second)
    \o (IF srch.wiki.search.kind = "ok" THEN Delivered(srch.wiki.info) ELSE <<>>)

\* the position of the first candidate of all with url u
FirstIndex(all, u) ==
  CHOOSE i \in 1 .. Len(all) :
    all[i].url = u /\ \A j \in 1 .. (i - 1) : all[j].url # u

\* C31: the list of searchWikimedia has no url twice and at most
\* candidates_per_source candidates; its k-th candidate is the k-th distinct
\* url of what the article searches and then Commons delivered, so that
\* article results come first and duplicates are removed before the
\* truncation; Commons is asked exactly when the article searches gave
\* fewer than candidates_per_source results.
C31_WikimediaDedupThenTruncate ==
  srch.wiki.pc = "done" =>
    LET all == WikiDelivered
        res == srch.wiki.results
        limit == settings.candidates_per_source
    IN /\ \A i, j \in 1 .. Len(res) : res[i].url = res[j].url => i = j
       /\ Len(res) <= Max(limit, 0)
       /\ Len(res) = Min(Cardinality({all[i].url : i \in 1 .. Len(all)}), Max(limit, 0))
       /\ \A k \in 1 .. Len(res) :
            /\ \E i \in 1 .. Len(all) : all[i].url = res[k].url
            /\ LET fi == FirstIndex(all, res[k].url)
               IN /\ res[k] = all[fi]
                  /\ Cardinality({all[j].url : j \in 1 .. (fi - 1)}) = k - 1
       /\ srch.wiki.search.kind # None <=>
            Len(Delivered(srch.wiki.article) \o Delivered(srch.wiki.second)) < limit

\* C32: the article search in the second language is issued exactly when
\* the search in the first language gave fewer than 2 results, and its
\* results are appended after those of the first language.
C32_SecondLanguageWhenBelowMinimum ==
  /\ srch.wiki.pc = "second" => Len(Delivered(srch.wiki.article)) < 2
  /\ srch.wiki.pc \in {"commons", "info", "done"} =>
       (srch.wiki.second.kind # None <=> Len(Delivered(srch.wiki.article)) < 2)
  /\ srch.wiki.pc \in {"commons", "info"} =>
       srch.wiki.results = Delivered(srch.wiki.article) \o Delivered(srch.wiki.second)
  /\ srch.wiki.pc = "done" =>
       srch.wiki.results =
         SliceTo(DedupByUrl(WikiDelivered, {}), settings.candidates_per_source)

====
